---- MODULE Spec2Model ----
(***************************************************************************)
(* Model of the InternTracker page component (Home): the application       *)
(* records, the alert collection derived from them by the alert-generation *)
(* effect, the unread counter, and localStorage persistence.               *)
(*                                                                         *)
(* Time is counted in ticks; TicksPerHour ticks make one hour, so that the *)
(* Math.ceil / Math.floor of the rules are exercised on values that are    *)
(* not whole hours or days.  A React commit is followed by its passive     *)
(* effects before the next event handler runs: `dirty` says that a commit  *)
(* changed a dependency of the save and alert effects and that they have   *)
(* not run yet.  In Spec a file read started by the import completes       *)
(* before the next user action; SpecRules evaluates the rules over a wide  *)
(* range of dates; ClockSpec lets whole days pass; EditSpec renames and    *)
(* deletes records; CalSpec exports records of many shapes to a calendar   *)
(* file.  `lastExport` records what the last click on a calendar export    *)
(* button made the browser do.                                             *)
(***************************************************************************)
EXTENDS Integers, Sequences, FiniteSets, TLC

VARIABLES internships, alerts, unreadAlerts, loading, showAlerts,
          selectedInternship, storage, reader, now, nextId, dirty,
          lastExport

vars == <<internships, alerts, unreadAlerts, loading, showAlerts,
          selectedInternship, storage, reader, now, nextId, dirty,
          lastExport>>

----------------------------------------------------------------------------
(* Bounds *)

TicksPerHour == 2
MaxNow == 1
MaxRecords == 2
MaxId == 2
MaxElapsed == 1

HOUR == TicksPerHour
DAY == 24 * HOUR

NULL == [k |-> "null"]

----------------------------------------------------------------------------
(* Date strings and JavaScript numbers *)

\* A date field of a record: the empty string, a string that does not parse,
\* or a string that parses to the instant t.
EmptyStr == [k |-> "empty", t |-> 0]
BadStr == [k |-> "bad", t |-> 0]
DateStr(t) == [k |-> "date", t |-> t]

\* JavaScript numbers: NaN or an integer.
NaN == [nan |-> TRUE, v |-> 0]
Num(x) == [nan |-> FALSE, v |-> x]

\* a string is truthy iff it is non-empty
Truthy(s) == s.k # "empty"

\* new Date(s).getTime()
GetTime(s) == IF s.k = "date" THEN Num(s.t) ELSE NaN

Minus(a, b) == IF a.nan \/ b.nan THEN NaN ELSE Num(a.v - b.v)

\* variant: rounds down
CeilDivDown(x, d) == IF x.nan THEN NaN ELSE Num(x.v \div d)

\* Math.ceil(x / d), d > 0
CeilDiv(x, d) == IF x.nan THEN NaN ELSE Num(-((-(x.v)) \div d))

\* Math.floor(x / d), d > 0
FloorDiv(x, d) == IF x.nan THEN NaN ELSE Num(x.v \div d)

\* variant: NaN compares equal to everything
StrictEqNaN(x, n) == x.nan \/ x.v = n

\* x === n
StrictEq(x, n) == ~x.nan /\ x.v = n

----------------------------------------------------------------------------
(* Alert rules *)

AlertId(recId, tag) == [rec |-> recId, tag |-> tag]

\* the message template of each rule; {company} is filled in by MkAlert
MessageTemplate(tag) ==
    CASE tag = "deadline-7" -> "Application deadline for {company} is in 1 week!"
      [] tag = "deadline-3" -> "Application deadline for {company} is in 3 days!"
      [] tag = "deadline-1" -> "Application deadline for {company} is tomorrow!"
      [] tag = "interview-24" -> "Interview with {company} is tomorrow! Time to prepare!"
      [] tag = "interview-2" -> "Interview with {company} is in 2 hours! Good luck!"
      [] tag = "followup" -> "Send a thank you email to {company}!"

MkAlert(internship, tag, type, today) ==
    [id |-> AlertId(internship.id, tag),
     type |-> type,
     message |-> [tpl |-> MessageTemplate(tag), company |-> internship.company],
     date |-> today,
     internshipId |-> internship.id,
     read |-> FALSE]

daysUntilDeadline(internship, today) ==
    CeilDiv(Minus(GetTime(internship.deadline), Num(today)), DAY)

hoursUntilInterview(internship, today) ==
    CeilDiv(Minus(GetTime(internship.interviewDate), Num(today)), HOUR)

\* variant: rounds up
daysSinceInterviewUp(internship, today) ==
    CeilDiv(Minus(Num(today), GetTime(internship.interviewDate)), DAY)

daysSinceInterview(internship, today) ==
    FloorDiv(Minus(Num(today), GetTime(internship.interviewDate)), DAY)

DeadlineAlerts(internship, today) ==
    IF Truthy(internship.deadline)
    THEN LET d == daysUntilDeadline(internship, today)
         IN  IF StrictEq(d, 7) THEN <<MkAlert(internship, "deadline-7", "deadline", today)>>
             ELSE IF StrictEq(d, 3) THEN <<MkAlert(internship, "deadline-3", "deadline", today)>>
             ELSE IF StrictEq(d, 1) THEN <<MkAlert(internship, "deadline-1", "deadline", today)>>
             ELSE <<>>
    ELSE <<>>

\* variant: the status is not looked at
InterviewAlertsAnyStatus(internship, today) ==
    IF Truthy(internship.interviewDate)
    THEN LET h == hoursUntilInterview(internship, today)
         IN  IF StrictEq(h, 24) THEN <<MkAlert(internship, "interview-24", "interview", today)>>
             ELSE IF StrictEq(h, 2) THEN <<MkAlert(internship, "interview-2", "interview", today)>>
             ELSE <<>>
    ELSE <<>>

InterviewAlerts(internship, today) ==
    IF Truthy(internship.interviewDate) /\ internship.status = "interview"
    THEN LET h == hoursUntilInterview(internship, today)
         IN  IF StrictEq(h, 24) THEN <<MkAlert(internship, "interview-24", "interview", today)>>
             ELSE IF StrictEq(h, 2) THEN <<MkAlert(internship, "interview-2", "interview", today)>>
             ELSE <<>>
    ELSE <<>>

\* variant: the follow-up does not wait for the day after the interview
FollowupAlertsAnyDay(internship, today) ==
    IF internship.status = "interview" /\ Truthy(internship.interviewDate)
    THEN <<MkAlert(internship, "followup", "followup", today)>>
    ELSE <<>>

FollowupAlerts(internship, today) ==
    IF internship.status = "interview" /\ Truthy(internship.interviewDate)
    THEN IF StrictEq(daysSinceInterview(internship, today), 1)
         THEN <<MkAlert(internship, "followup", "followup", today)>>
         ELSE <<>>
    ELSE <<>>

RecordAlerts(internship, today) ==
    DeadlineAlerts(internship, today) \o InterviewAlerts(internship, today)
        \o FollowupAlerts(internship, today)

\* newAlerts after internships.forEach
RECURSIVE NewAlerts(_, _)
NewAlerts(recs, today) ==
    IF recs = <<>> THEN <<>>
    ELSE RecordAlerts(Head(recs), today) \o NewAlerts(Tail(recs), today)

\* variant: no id counts as existing
existingAlertIdsEmpty(as) == {}

existingAlertIds(as) == {as[i].id : i \in 1..Len(as)}

\* variant: only the unread alerts count as existing
IsNewAlertUnread(alert, as) ==
    alert.id \notin {as[i].id : i \in {j \in 1..Len(as) : ~as[j].read}}

IsNewAlert(alert, as) == alert.id \notin existingAlertIds(as)

\* variant: no candidate is filtered out
UniqueNewAlertsAll(cands, as) == cands

UniqueNewAlerts(cands, as) == SelectSeq(cands, LAMBDA alert : IsNewAlert(alert, as))

RECURSIVE CountUnread(_)
CountUnread(as) ==
    IF as = <<>> THEN 0
    ELSE (IF Head(as).read THEN 0 ELSE 1) + CountUnread(Tail(as))

----------------------------------------------------------------------------
(* Records and form input *)

Form(company, status, deadline, interviewDate) ==
    [company |-> company, position |-> "SWE Intern", location |-> "",
     status |-> status, applicationDate |-> EmptyStr, deadline |-> deadline,
     interviewDate |-> interviewDate]

\* a deadline whose 7-day window opens at the last instant of the first day
\* of the model
WeekAhead == DateStr(7 * DAY + MaxNow)

\* formData as submitted by the form
FormData ==
    {Form("Acme", "applied", WeekAhead, EmptyStr),
     Form("Acme", "applied", EmptyStr, EmptyStr)}

MkInternship(id, form) ==
    [id |-> id, company |-> form.company, position |-> form.position,
     location |-> form.location, status |-> form.status,
     applicationDate |-> form.applicationDate,
     deadline |-> form.deadline, interviewDate |-> form.interviewDate]

\* contents of a file offered to the import: a JSON array of records
\* exported earlier (ids already issued), or text that is not a JSON array
BadFile == [ok |-> FALSE, recs |-> <<>>]
ExportedFile ==
    [ok |-> TRUE, recs |-> <<MkInternship(1, Form("Acme", "applied", WeekAhead, EmptyStr))>>]
ImportFiles == {BadFile, ExportedFile}

RecordIds(recs) == {recs[i].id : i \in 1..Len(recs)}

\* internships.find(i => i.id === id): index of the first match, 0 if none
FindIndex(recs, id) ==
    IF id \in RecordIds(recs)
    THEN CHOOSE i \in 1..Len(recs) :
            recs[i].id = id /\ \A j \in 1..(i - 1) : recs[j].id # id
    ELSE 0

----------------------------------------------------------------------------
(* State *)

Init ==
    /\ internships = <<>>
    /\ alerts = <<>>
    /\ unreadAlerts = 0
    /\ loading = TRUE
    /\ showAlerts = FALSE
    /\ selectedInternship = NULL
    /\ storage = [internships |-> <<>>, alerts |-> <<>>]
    /\ reader = NULL
    /\ now = 0
    /\ nextId = 1
    /\ dirty = TRUE
    /\ lastExport = NULL

\* the page is rendered and no effect is pending: handlers can be invoked
Idle == ~loading /\ ~dirty

\* nothing is covered by the detail view (a full-screen overlay)
Background == Idle /\ selectedInternship = NULL

----------------------------------------------------------------------------
(* Effects *)

\* the timeout of the load effect fires, long after the effects of the
\* mount have run
Load ==
    /\ loading
    /\ ~dirty
    /\ internships' = storage.internships
    /\ alerts' = storage.alerts
    /\ loading' = FALSE
    /\ dirty' = TRUE
    /\ UNCHANGED <<unreadAlerts, showAlerts, selectedInternship, storage,
                   reader, now, nextId, lastExport>>

\* variant: the effects do not look at loading
EffectsEnabledAlways == TRUE

\* if (!loading) of the save effect and of the alert-generation effect
EffectsEnabled == ~loading

\* variant: the alerts are stored as unread
SaveEffectUnread(recs, as) ==
    [internships |-> recs,
     alerts |-> [i \in 1..Len(as) |-> [as[i] EXCEPT !.read = FALSE]]]

\* save effect
SaveEffect(recs, as) == [internships |-> recs, alerts |-> as]

\* variant: the new alerts are put in front
MergeAlertsFront(as, recs, today) == UniqueNewAlerts(NewAlerts(recs, today), as) \o as

\* alert-generation effect: the collection it sets
MergeAlerts(as, recs, today) == as \o UniqueNewAlerts(NewAlerts(recs, today), as)

\* variant: the run leaves the unread counter alone
FlushEffectsNoCount ==
    /\ dirty
    /\ IF EffectsEnabled
       THEN /\ storage' = SaveEffect(internships, alerts)
            /\ alerts' = MergeAlerts(alerts, internships, now)
            /\ dirty' = (UniqueNewAlerts(NewAlerts(internships, now), alerts) # <<>>)
       ELSE /\ dirty' = FALSE
            /\ UNCHANGED <<storage, alerts>>
    /\ UNCHANGED <<internships, unreadAlerts, loading, showAlerts,
                   selectedInternship, reader, now, nextId, lastExport>>

\* The passive effects of the mount and of a commit that changed
\* internships, alerts or loading: the save effect, then the
\* alert-generation effect. Both do nothing while the page loads.
FlushEffects ==
    /\ dirty
    /\ IF EffectsEnabled
       THEN /\ storage' = SaveEffect(internships, alerts)
            /\ alerts' = MergeAlerts(alerts, internships, now)
            /\ unreadAlerts' = CountUnread(alerts)
            /\ dirty' = (UniqueNewAlerts(NewAlerts(internships, now), alerts) # <<>>)
       ELSE /\ dirty' = FALSE
            /\ UNCHANGED <<storage, alerts, unreadAlerts>>
    /\ UNCHANGED <<internships, loading, showAlerts, selectedInternship,
                   reader, now, nextId, lastExport>>

----------------------------------------------------------------------------
(* Record handlers *)

\* handleSubmit with editingId == null
HandleSubmitNew(form) ==
    /\ Background
    /\ Len(internships) < MaxRecords
    /\ nextId <= MaxId
    /\ internships' = <<MkInternship(nextId, form)>> \o internships
    /\ nextId' = nextId + 1
    /\ dirty' = TRUE
    /\ UNCHANGED <<alerts, unreadAlerts, loading, showAlerts,
                   selectedInternship, storage, reader, now, lastExport>>

EditRecord(internship, editingId, form) ==
    IF internship.id = editingId THEN MkInternship(internship.id, form)
    ELSE internship

\* handleEdit (from a card, or from the detail view, which it closes)
\* followed by handleSubmit with that editingId
HandleSubmitEdit(editingId, form) ==
    /\ Idle
    /\ editingId \in RecordIds(internships)
    /\ selectedInternship # NULL => selectedInternship.id = editingId
    /\ internships' = [i \in 1..Len(internships) |->
                          EditRecord(internships[i], editingId, form)]
    /\ selectedInternship' = NULL
    /\ dirty' = TRUE
    /\ UNCHANGED <<alerts, unreadAlerts, loading, showAlerts, storage,
                   reader, now, nextId, lastExport>>

DeleteRecord(recs, id) == SelectSeq(recs, LAMBDA internship : internship.id # id)

\* handleDelete (from a card, or from the detail view, which it closes)
HandleDelete(id) ==
    /\ Idle
    /\ id \in RecordIds(internships)
    /\ selectedInternship # NULL => selectedInternship.id = id
    /\ internships' = DeleteRecord(internships, id)
    /\ selectedInternship' = NULL
    /\ dirty' = TRUE
    /\ UNCHANGED <<alerts, unreadAlerts, loading, showAlerts, storage,
                   reader, now, nextId, lastExport>>

\* importData: the handler captures the internships of its render
ImportData(file) ==
    /\ Background
    /\ reader = NULL
    /\ Len(internships) + Len(file.recs) <= MaxRecords
    /\ RecordIds(file.recs) \subseteq 1..(nextId - 1)
    /\ reader' = [captured |-> internships, file |-> file]
    /\ UNCHANGED <<internships, alerts, unreadAlerts, loading, showAlerts,
                   selectedInternship, storage, now, nextId, dirty,
                   lastExport>>

\* reader.onload
ReaderOnload ==
    /\ reader # NULL
    /\ ~loading
    /\ ~dirty
    /\ IF reader.file.ok
       THEN /\ internships' = reader.captured \o reader.file.recs
            /\ dirty' = TRUE
       ELSE UNCHANGED <<internships, dirty>>
    /\ reader' = NULL
    /\ UNCHANGED <<alerts, unreadAlerts, loading, showAlerts,
                   selectedInternship, storage, now, nextId, lastExport>>

----------------------------------------------------------------------------
(* Alert dropdown and detail view handlers *)

ToggleAlerts ==
    /\ Background
    /\ showAlerts' = ~showAlerts
    /\ UNCHANGED <<internships, alerts, unreadAlerts, loading,
                   selectedInternship, storage, reader, now, nextId, dirty,
                   lastExport>>

\* variant: the read flag is left as it is
MarkReadKeep(a) == a

MarkRead(a) == [a EXCEPT !.read = TRUE]

\* "Mark all as read"
MarkAllRead ==
    /\ Background
    /\ showAlerts
    /\ alerts' = [i \in 1..Len(alerts) |-> MarkRead(alerts[i])]
    /\ unreadAlerts' = 0
    /\ dirty' = TRUE
    /\ UNCHANGED <<internships, loading, showAlerts, selectedInternship,
                   storage, reader, now, nextId, lastExport>>

\* variant: the id is not compared
ClickMarkAny(a, id) == MarkRead(a)

ClickMark(a, id) == IF a.id = id THEN MarkRead(a) ELSE a

\* click on the alert at position n of the collection
ClickAlert(n) ==
    /\ Background
    /\ showAlerts
    /\ n \in 1..Len(alerts)
    /\ alerts' = [i \in 1..Len(alerts) |-> ClickMark(alerts[i], alerts[n].id)]
    /\ LET k == FindIndex(internships, alerts[n].internshipId)
       IN  selectedInternship' = IF k # 0 THEN internships[k] ELSE selectedInternship
    /\ showAlerts' = FALSE
    /\ dirty' = TRUE
    /\ UNCHANGED <<internships, unreadAlerts, loading, storage, reader, now,
                   nextId, lastExport>>

\* click on a card
SelectCard(n) ==
    /\ Background
    /\ n \in 1..Len(internships)
    /\ selectedInternship' = internships[n]
    /\ UNCHANGED <<internships, alerts, unreadAlerts, loading, showAlerts,
                   storage, reader, now, nextId, dirty, lastExport>>

CloseDetail ==
    /\ Idle
    /\ selectedInternship # NULL
    /\ selectedInternship' = NULL
    /\ UNCHANGED <<internships, alerts, unreadAlerts, loading, showAlerts,
                   storage, reader, now, nextId, dirty, lastExport>>

----------------------------------------------------------------------------
(* Environment *)

\* time passes (a tick is far longer than a commit and its effects take)
Tick ==
    /\ ~dirty
    /\ now < MaxNow
    /\ now' = now + 1
    /\ UNCHANGED <<internships, alerts, unreadAlerts, loading, showAlerts,
                   selectedInternship, storage, reader, nextId, dirty,
                   lastExport>>

\* the page is reloaded: component state starts over, localStorage stays
Reload ==
    /\ Idle
    /\ internships' = <<>>
    /\ alerts' = <<>>
    /\ unreadAlerts' = 0
    /\ loading' = TRUE
    /\ showAlerts' = FALSE
    /\ selectedInternship' = NULL
    /\ reader' = NULL
    /\ dirty' = TRUE
    /\ UNCHANGED <<storage, now, nextId, lastExport>>

\* a file read completes before the next user action
NoRead == reader = NULL

Next ==
    \/ Load
    \/ FlushEffects
    \/ NoRead /\ \E form \in FormData : HandleSubmitNew(form)
    \/ NoRead /\ \E id \in 1..MaxId, form \in FormData : HandleSubmitEdit(id, form)
    \/ NoRead /\ \E id \in 1..MaxId : HandleDelete(id)
    \/ \E file \in ImportFiles : ImportData(file)
    \/ ReaderOnload
    \/ NoRead /\ ToggleAlerts
    \/ NoRead /\ MarkAllRead
    \/ NoRead /\ \E n \in DOMAIN alerts : ClickAlert(n)
    \/ NoRead /\ \E n \in DOMAIN internships : SelectCard(n)
    \/ NoRead /\ CloseDetail
    \/ NoRead /\ Tick
    \/ NoRead /\ Reload

Spec == Init /\ [][Next]_vars

----------------------------------------------------------------------------
(* Rule evaluation over a wide range of dates: the effect runs once on a   *)
(* collection as it is right after an import into an empty application.    *)

RuleStatuses == {"applied", "interview", "offer"}

RuleDeadlines ==
    {EmptyStr, BadStr, DateStr(7 * DAY + HOUR)} \cup
    {DateStr(k * DAY + o) : k \in {0, 1, 2, 3, 6, 7}, o \in {0, 1}}

RuleInterviewDates ==
    {EmptyStr, BadStr} \cup
    {DateStr(k * HOUR + o) : k \in {1, 2, 23, 24}, o \in {0, 1}} \cup
    {DateStr(o - k * DAY) : k \in {0, 1, 2}, o \in {0, 1}}

RuleForms ==
    {Form("Acme", st, d, iv) :
        st \in RuleStatuses, d \in RuleDeadlines, iv \in RuleInterviewDates}

\* records with a field that does not parse, and records whose rules fire
BadForms ==
    {Form("Globex", st, d, iv) :
        st \in {"interview"}, d \in {BadStr, DateStr(DAY)}, iv \in {BadStr, DateStr(2 * HOUR)}}

GoodForms ==
    {Form("Acme", "interview", DateStr(3 * DAY), DateStr(24 * HOUR)),
     Form("Acme", "interview", DateStr(7 * DAY), DateStr(1 - DAY))}

RulesInit ==
    /\ internships \in
          {<<MkInternship(1, f)>> : f \in RuleForms} \cup
          {<<MkInternship(1, b), MkInternship(2, g)>> : b \in BadForms, g \in GoodForms} \cup
          {<<MkInternship(1, g), MkInternship(2, b)>> : b \in BadForms, g \in GoodForms}
    /\ alerts = <<>>
    /\ unreadAlerts = 0
    /\ loading = FALSE
    /\ showAlerts = FALSE
    /\ selectedInternship = NULL
    /\ storage = [internships |-> <<>>, alerts |-> <<>>]
    /\ reader = NULL
    /\ now \in 0..MaxNow
    /\ nextId = 3
    /\ dirty = TRUE
    /\ lastExport = NULL

RulesNext ==
    \/ FlushEffects
    \/ Tick

SpecRules == RulesInit /\ [][RulesNext]_vars

----------------------------------------------------------------------------
(* Properties of the alert collection *)

AlertIdsOf(as) == {as[i].id : i \in 1..Len(as)}

\* the alerts a step added at the end of the collection
Appended == SubSeq(alerts', Len(alerts) + 1, Len(alerts'))

\* C1: the alert collection never contains two alerts with the same id,
\* whatever sequence of creations, edits, deletions, imports, generation
\* runs, read-marking and reloads produced it.
C1_NoDuplicateAlertIds ==
    \A i, j \in 1..Len(alerts) : i # j => alerts[i].id # alerts[j].id

\* the run that follows a run which appended, at the same instant
SecondRun ==
    /\ dirty
    /\ Len(alerts) > Len(storage.alerts)
    /\ alerts[Len(alerts)].date = now

\* C2: a generation run appends exactly the candidates whose id is not the
\* id of any alert of the collection, read or unread, and the run that
\* follows an appending run over the same records appends nothing.
C2_Idempotent ==
    [][FlushEffects =>
        /\ Len(alerts') >= Len(alerts)
        /\ \A i \in 1..Len(Appended) : Appended[i].id \notin AlertIdsOf(alerts)
        /\ \A c \in AlertIdsOf(NewAlerts(internships, now)) :
              c \notin AlertIdsOf(alerts) => c \in AlertIdsOf(Appended)
        /\ (SecondRun => alerts' = alerts)]_vars

\* a run has just left alone a candidate whose alert exists and is read
C2_Witness ==
    /\ ~loading
    /\ ~dirty
    /\ storage.alerts = alerts
    /\ storage.internships = internships
    /\ \E i \in 1..Len(alerts) :
          /\ alerts[i].read
          /\ alerts[i].id \in AlertIdsOf(NewAlerts(internships, now))

\* C3: the unread counter equals the number of alerts with read = FALSE in
\* every state, in particular right after each mutation of the collection.
C3_UnreadCounterMatches == unreadAlerts = CountUnread(alerts)

\* C4: right after "Mark all as read" every alert is read and the unread
\* counter is 0.
C4_MarkAllRead ==
    [][MarkAllRead =>
        /\ \A i \in 1..Len(alerts') : alerts'[i].read
        /\ Len(alerts') = Len(alerts)
        /\ unreadAlerts' = 0]_vars

\* "Mark all as read" has just acted on a collection with an unread alert
C4_Witness ==
    /\ showAlerts
    /\ dirty
    /\ alerts # <<>>
    /\ \A i \in 1..Len(alerts) : alerts[i].read
    /\ \E i \in 1..Len(storage.alerts) : ~storage.alerts[i].read
    /\ unreadAlerts = 0

\* C5: a generation run keeps every existing alert, unchanged and in place,
\* and only appends; deleting or editing a record leaves the alert
\* collection as it is.
C5_NeverRemoves ==
    [][/\ FlushEffects =>
            /\ Len(alerts') >= Len(alerts)
            /\ SubSeq(alerts', 1, Len(alerts)) = alerts
       /\ (\E id \in 1..MaxId : HandleDelete(id)) => alerts' = alerts
       /\ (\E id \in 1..MaxId, form \in FormData : HandleSubmitEdit(id, form))
            => alerts' = alerts]_vars

\* a run has just appended behind a read alert whose record was deleted
C5_Witness ==
    /\ dirty
    /\ storage.alerts # <<>>
    /\ Len(alerts) > Len(storage.alerts)
    /\ SubSeq(alerts, 1, Len(storage.alerts)) = storage.alerts
    /\ alerts[1].read
    /\ alerts[1].internshipId \notin RecordIds(internships)

----------------------------------------------------------------------------
(* Properties of the rules *)

DeadlineTag(n) ==
    CASE n = 7 -> "deadline-7" [] n = 3 -> "deadline-3" [] n = 1 -> "deadline-1"

InterviewTag(n) ==
    CASE n = 24 -> "interview-24" [] n = 2 -> "interview-2"

IsDate(s) == s.k = "date"

\* ceil(x / unit) = n, stated on the integers
CeilIs(x, unit, n) == (n - 1) * unit < x /\ x <= n * unit

\* floor(x / unit) = n, stated on the integers
FloorIs(x, unit, n) == n * unit <= x /\ x < (n + 1) * unit

AppendedWith(type) ==
    {Appended[i].id : i \in {j \in 1..Len(Appended) : Appended[j].type = type}}

\* C6: a run produces <id>-deadline-N (N in 7, 3, 1) exactly when
\* ceil((deadline - now) / 1 day) = N, with the message of that rule, and no
\* other deadline alert; a deadline 7 days ahead gives the "1 week" alert,
\* a deadline 7 days and 1 hour ahead gives none.
C6_DeadlineBoundaries ==
    [][FlushEffects =>
        \A k \in 1..Len(internships) :
            LET r == internships[k]
                ids == {AlertId(r.id, DeadlineTag(n)) : n \in {7, 3, 1}}
            IN  /\ \A n \in {7, 3, 1} :
                     AlertId(r.id, DeadlineTag(n)) \in AlertIdsOf(Appended)
                       <=> /\ AlertId(r.id, DeadlineTag(n)) \notin AlertIdsOf(alerts)
                           /\ IsDate(r.deadline)
                           /\ CeilIs(r.deadline.t - now, DAY, n)
                /\ \A i \in 1..Len(Appended) :
                     (Appended[i].internshipId = r.id /\ Appended[i].type = "deadline")
                       => Appended[i].id \in ids
                /\ r.deadline = DateStr(now + 7 * DAY) /\ alerts = <<>>
                     => \E i \in 1..Len(Appended) :
                           /\ Appended[i].id = AlertId(r.id, "deadline-7")
                           /\ Appended[i].message.tpl =
                                "Application deadline for {company} is in 1 week!"
                /\ r.deadline = DateStr(now + 7 * DAY + HOUR)
                     => \A i \in 1..Len(Appended) : Appended[i].type # "deadline"]_vars

\* a run has produced the 1-week alert for a deadline less than 7 whole days
\* ahead
C6_Witness ==
    \E k \in 1..Len(internships), i \in 1..Len(alerts) :
        /\ internships[k].deadline = DateStr(alerts[i].date + 7 * DAY - 1)
        /\ alerts[i].id = AlertId(internships[k].id, "deadline-7")
        /\ alerts[i].message.tpl = "Application deadline for {company} is in 1 week!"

\* C7: a run produces <id>-interview-24 (resp. -2) exactly when the status
\* is 'interview', interviewDate is set and
\* ceil((interviewDate - now) / 1 hour) = 24 (resp. 2); a record in another
\* status gets no interview alert.
C7_InterviewReminders ==
    [][FlushEffects =>
        \A k \in 1..Len(internships) :
            LET r == internships[k]
            IN  /\ \A n \in {24, 2} :
                     AlertId(r.id, InterviewTag(n)) \in AlertIdsOf(Appended)
                       <=> /\ AlertId(r.id, InterviewTag(n)) \notin AlertIdsOf(alerts)
                           /\ r.status = "interview"
                           /\ IsDate(r.interviewDate)
                           /\ CeilIs(r.interviewDate.t - now, HOUR, n)
                /\ r.status # "interview"
                     => \A i \in 1..Len(Appended) :
                           Appended[i].internshipId = r.id
                             => Appended[i].type # "interview"]_vars

\* a run has produced the 24-hour reminder for an interview less than 24
\* whole hours ahead
C7_Witness ==
    \E k \in 1..Len(internships), i \in 1..Len(alerts) :
        /\ internships[k].status = "interview"
        /\ internships[k].interviewDate = DateStr(alerts[i].date + 24 * HOUR - 1)
        /\ alerts[i].id = AlertId(internships[k].id, "interview-24")
        /\ alerts[i].type = "interview"

\* C8: a run produces <id>-followup, of kind followup, exactly when the
\* status is 'interview', interviewDate is set and
\* floor((now - interviewDate) / 1 day) = 1.
C8_Followup ==
    [][FlushEffects =>
        \A k \in 1..Len(internships) :
            LET r == internships[k]
            IN  /\ AlertId(r.id, "followup") \in AlertIdsOf(Appended)
                     <=> /\ AlertId(r.id, "followup") \notin AlertIdsOf(alerts)
                         /\ r.status = "interview"
                         /\ IsDate(r.interviewDate)
                         /\ FloorIs(now - r.interviewDate.t, DAY, 1)
                /\ \A i \in 1..Len(Appended) :
                     Appended[i].internshipId = r.id
                       => (Appended[i].type = "followup"
                             <=> Appended[i].id = AlertId(r.id, "followup"))]_vars

\* a run has produced the follow-up exactly one day after the interview
C8_Witness ==
    \E k \in 1..Len(internships), i \in 1..Len(alerts) :
        /\ internships[k].status = "interview"
        /\ internships[k].interviewDate = DateStr(alerts[i].date - DAY)
        /\ alerts[i].id = AlertId(internships[k].id, "followup")
        /\ alerts[i].type = "followup"

\* a record with its unparsable date fields emptied
Sanitize(r) ==
    [r EXCEPT !.deadline = IF @ = BadStr THEN EmptyStr ELSE @,
              !.interviewDate = IF @ = BadStr THEN EmptyStr ELSE @]

\* C10: an unparsable deadline or interviewDate makes the rules on that
\* field not fire and changes nothing else: a run appends what it would
\* append if the unparsable fields were empty.
C10_UnparsableDates ==
    [][FlushEffects =>
        /\ Appended =
             UniqueNewAlerts(
                NewAlerts([k \in 1..Len(internships) |-> Sanitize(internships[k])], now),
                alerts)
        /\ \A k \in 1..Len(internships), i \in 1..Len(Appended) :
              Appended[i].internshipId = internships[k].id
                => /\ internships[k].deadline = BadStr => Appended[i].type # "deadline"
                   /\ internships[k].interviewDate = BadStr
                        => Appended[i].type \notin {"interview", "followup"}]_vars

\* a run over a record with two unparsable dates has produced the alerts of
\* the other record and none for that record
C10_Witness ==
    /\ Len(internships) = 2
    /\ internships[1].deadline = BadStr
    /\ internships[1].interviewDate = BadStr
    /\ storage.internships = internships
    /\ Len(alerts) = 2
    /\ \A i \in 1..Len(alerts) : alerts[i].internshipId = internships[2].id

----------------------------------------------------------------------------
(* Re-evaluation as time passes *)

\* a whole day passes
TickDay ==
    /\ ~dirty
    /\ now <= MaxNow
    /\ now' = now + DAY
    /\ UNCHANGED <<internships, alerts, unreadAlerts, loading, showAlerts,
                   selectedInternship, storage, reader, nextId, dirty,
                   lastExport>>

\* time passes inside the second day
TickNextDay ==
    /\ ~dirty
    /\ now >= DAY
    /\ now < DAY + MaxNow
    /\ now' = now + 1
    /\ UNCHANGED <<internships, alerts, unreadAlerts, loading, showAlerts,
                   selectedInternship, storage, reader, nextId, dirty,
                   lastExport>>

ClockNext ==
    \/ Load
    \/ FlushEffects
    \/ \E form \in FormData : HandleSubmitNew(form)
    \/ \E id \in 1..MaxId : HandleDelete(id)
    \/ ToggleAlerts
    \/ MarkAllRead
    \/ \E n \in DOMAIN alerts : ClickAlert(n)
    \/ \E n \in DOMAIN internships : SelectCard(n)
    \/ CloseDetail
    \/ Tick
    \/ TickDay
    \/ TickNextDay
    \/ Reload

\* The application over two days.  The timer of the load effect fires,
\* pending effects run and time passes; user actions are never forced.
ClockSpec ==
    /\ Init
    /\ [][ClockNext]_vars
    /\ WF_vars(Load)
    /\ WF_vars(FlushEffects)
    /\ WF_vars(Tick)
    /\ WF_vars(TickDay)
    /\ WF_vars(TickNextDay)

\* the record with this id has a deadline whose 7-day window is open
InWindow(id) ==
    /\ ~loading
    /\ \E k \in 1..Len(internships) :
          /\ internships[k].id = id
          /\ IsDate(internships[k].deadline)
          /\ CeilIs(internships[k].deadline.t - now, DAY, 7)

\* the 1-week alert of the record is in the collection, or the record was
\* removed, or the page was reloaded
Settled(id) ==
    \/ loading
    \/ AlertId(id, "deadline-7") \in AlertIdsOf(alerts)
    \/ \A k \in 1..Len(internships) : internships[k].id # id

\* C9: while the application stays open, a record whose deadline is inside
\* the 7-day window eventually has its 1-week alert in the collection,
\* without any change to the record set.
C9_TriggerWindowsAlerted ==
    \A id \in 1..MaxId : [](InWindow(id) => <>Settled(id))

----------------------------------------------------------------------------
(* Editing: records are renamed, edited and deleted while their alerts     *)
(* stay in the collection.                                                 *)

EditForms ==
    {Form("Acme", "applied", WeekAhead, EmptyStr),
     Form("Globex", "applied", WeekAhead, EmptyStr),
     Form("Globex", "applied", EmptyStr, EmptyStr)}

EditNext ==
    \/ Load
    \/ FlushEffects
    \/ \E form \in EditForms : HandleSubmitNew(form)
    \/ \E id \in 1..MaxId, form \in EditForms : HandleSubmitEdit(id, form)
    \/ \E id \in 1..MaxId : HandleDelete(id)
    \/ Tick
    \/ Reload

EditSpec == Init /\ [][EditNext]_vars

\* the alert at position i is carried over with its identity and its text
KeepsAlert(i) ==
    /\ i <= Len(alerts')
    /\ alerts'[i].id = alerts[i].id
    /\ alerts'[i].message = alerts[i].message
    /\ alerts'[i].internshipId = alerts[i].internshipId

\* C11: when a record is edited or deleted, and when the generation effect
\* runs afterwards, every alert already in the collection keeps its id, its
\* message (with the company name it was generated with) and its
\* internshipId, and the run appends no alert under an id that is already
\* in the collection.
C11_AlertsOutliveRecords ==
    [][((\E id \in 1..MaxId, form \in EditForms : HandleSubmitEdit(id, form))
          \/ (\E id \in 1..MaxId : HandleDelete(id))
          \/ FlushEffects)
        => /\ \A i \in 1..Len(alerts) : KeepsAlert(i)
           /\ \A j \in (Len(alerts) + 1)..Len(alerts') :
                 alerts'[j].id \notin AlertIdsOf(alerts)]_vars

\* the effect has run after an edit or a delete: an alert names a company
\* its record no longer has, and another alert has no record any more
C11_Witness ==
    /\ Idle
    /\ \E i \in 1..Len(alerts) :
          LET k == FindIndex(internships, alerts[i].internshipId)
          IN  /\ k # 0
              /\ internships[k].company # alerts[i].message.company
              /\ Truthy(internships[k].deadline)
    /\ \E i \in 1..Len(alerts) : FindIndex(internships, alerts[i].internshipId) = 0

----------------------------------------------------------------------------
(* Text.  A text is the sequence of its lines, the pieces between its      *)
(* CRLF line breaks; a string without a line break is one line.            *)

\* a company name with line breaks in it (from an imported file)
BrokenLines == "Initech\r\nBEGIN:VALARM\r\nEND:VALARM\r\nEND:VEVENT\r\nLLC"

\* the lines of a string held by a record
TextOf(s) ==
    IF s = BrokenLines
    THEN <<"Initech", "BEGIN:VALARM", "END:VALARM", "END:VEVENT", "LLC">>
    ELSE <<s>>

\* a + b: the last line of a runs on into the first line of b
Cat(a, b) == SubSeq(a, 1, Len(a) - 1) \o <<a[Len(a)] \o b[1]>> \o Tail(b)

\* a template literal, given as its parts in order
RECURSIVE Template(_)
Template(parts) ==
    IF parts = <<>> THEN <<"">>
    ELSE Cat(Head(parts), Template(Tail(parts)))

\* items.join('\r\n')
RECURSIVE JoinCRLF(_)
JoinCRLF(items) ==
    IF items = <<>> THEN <<"">>
    ELSE IF Len(items) = 1 THEN Head(items)
    ELSE Head(items) \o JoinCRLF(Tail(items))

\* s || dflt
OrElse(s, dflt) == IF s # "" THEN s ELSE dflt

----------------------------------------------------------------------------
(* Date objects and their formatting *)

\* new Date(s) for a date field s; ms is the millisecond part of the instant
NewDate(s) == [nan |-> s.k # "date", v |-> s.t, ms |-> 0]

\* new Date(date.getTime() + 60 * 60 * 1000)
PlusOneHour(date) == IF date.nan THEN date ELSE [date EXCEPT !.v = @ + HOUR]

\* a reading of the clock: the tick of the model and the milliseconds since
\* the handler started
Reading(t, ms) == [t |-> t, ms |-> ms]

\* new Date()
ClockDate(reading) == [nan |-> FALSE, v |-> reading.t, ms |-> reading.ms]

\* Date.now(), counted from the instant 0 of the model
DateNow(reading) == reading.t * ((60 * 60 * 1000) \div TicksPerHour) + reading.ms

\* the calendar day of the instant 0 of the model, 2024-06-10T00:00:00Z,
\* and its number of days since 1970-01-01
Epoch == [year |-> 2024, month |-> 6, day |-> 10, days |-> 19884]

\* the proleptic Gregorian date of the day z days after 1970-01-01
CivilFromDays(z) ==
    LET n == z + 719468
        era == n \div 146097
        doe == n - era * 146097
        yoe == (doe - (doe \div 1460) + (doe \div 36524) - (doe \div 146096)) \div 365
        doy == doe - (365 * yoe + (yoe \div 4) - (yoe \div 100))
        mp == (5 * doy + 2) \div 153
        m == IF mp < 10 THEN mp + 3 ELSE mp - 9
    IN  [year |-> yoe + era * 400 + (IF m <= 2 THEN 1 ELSE 0),
         month |-> m,
         day |-> doy - ((153 * mp + 2) \div 5) + 1]

\* getUTCFullYear() ... getUTCMilliseconds()
UTCFields(date) ==
    [year |-> CivilFromDays(Epoch.days + (date.v \div DAY)).year,
     month |-> CivilFromDays(Epoch.days + (date.v \div DAY)).month,
     day |-> CivilFromDays(Epoch.days + (date.v \div DAY)).day,
     hours |-> (date.v % DAY) \div HOUR,
     minutes |-> ((date.v % HOUR) * 60) \div TicksPerHour,
     seconds |-> date.ms \div 1000,
     ms |-> date.ms % 1000]

\* n in decimal, padded with zeros to w digits
RECURSIVE Pad(_, _)
Pad(n, w) == IF Len(ToString(n)) >= w THEN ToString(n) ELSE "0" \o Pad(n, w - 1)

\* the year of toISOString(): four digits, or a sign and six digits for a
\* year outside 0..9999
ISOYear(year) ==
    IF year \in 0..9999 THEN <<Pad(year, 4)>>
    ELSE IF year < 0 THEN <<"-", Pad(0 - year, 6)>>
    ELSE <<"+", Pad(year, 6)>>

\* date.toISOString() of a valid date, as the sequence of its digit groups
\* and separators: YYYY-MM-DDTHH:mm:ss.sssZ
toISOString(date) ==
    LET f == UTCFields(date)
    IN  ISOYear(f.year)
        \o <<"-", Pad(f.month, 2), "-", Pad(f.day, 2), "T",
              Pad(f.hours, 2), ":", Pad(f.minutes, 2), ":", Pad(f.seconds, 2),
              ".", Pad(f.ms, 3), "Z">>

\* .replace(/[-:]/g, '')
StripSeparators(iso) == SelectSeq(iso, LAMBDA c : c \notin {"-", ":"})

\* .replace(/\.\d{3}/, ''): the first '.' followed by three digits goes
StripMillis(iso) ==
    LET hits == {i \in 1..(Len(iso) - 1) : iso[i] = "." /\ Len(iso[i + 1]) = 3}
    IN  IF hits = {} THEN iso
        ELSE LET i == CHOOSE h \in hits : \A g \in hits : h <= g
             IN  SubSeq(iso, 1, i - 1) \o SubSeq(iso, i + 2, Len(iso))

RECURSIVE Concat(_)
Concat(ss) == IF ss = <<>> THEN "" ELSE Head(ss) \o Concat(Tail(ss))

formatDate(date) == Concat(StripMillis(StripSeparators(toISOString(date))))

----------------------------------------------------------------------------
(* Calendar events and their encoding *)

DeadlineEvent(internship) ==
    [title |-> Template(<<<<"Application Deadline: ">>, TextOf(internship.company),
                          <<" - ">>, TextOf(internship.position)>>),
     start |-> NewDate(internship.deadline),
     end |-> NewDate(internship.deadline),
     description |-> Template(<<<<"Deadline for ">>, TextOf(internship.position),
                                <<" position at ">>, TextOf(internship.company)>>),
     location |-> TextOf(OrElse(internship.location, "")),
     alarm |-> 0]

InterviewEvent(internship) ==
    [title |-> Template(<<<<"Interview: ">>, TextOf(internship.company),
                          <<" - ">>, TextOf(internship.position)>>),
     start |-> NewDate(internship.interviewDate),
     end |-> PlusOneHour(NewDate(internship.interviewDate)),
     description |-> Template(<<<<"Interview for ">>, TextOf(internship.position),
                                <<" position at ">>, TextOf(internship.company)>>),
     location |-> TextOf(OrElse(internship.location, "Check email for details")),
     alarm |-> 60]

\* the events generateCalendarEvents encodes for one record
RecordEvents(internship) ==
    (IF Truthy(internship.deadline) THEN <<DeadlineEvent(internship)>> ELSE <<>>)
        \o (IF Truthy(internship.interviewDate)
            THEN <<InterviewEvent(internship)>> ELSE <<>>)

\* internships.forEach: the events in the order they are encoded
RECURSIVE CalendarEvents(_)
CalendarEvents(recs) ==
    IF recs = <<>> THEN <<>>
    ELSE RecordEvents(Head(recs)) \o CalendarEvents(Tail(recs))

\* the events of the "Add to Calendar" button of the detail view
DetailDeadlineEvent(internship) ==
    [title |-> Template(<<<<"Deadline: ">>, TextOf(internship.company),
                          <<" - ">>, TextOf(internship.position)>>),
     start |-> NewDate(internship.deadline),
     end |-> NewDate(internship.deadline),
     description |-> Template(<<<<"Application deadline for ">>,
                                TextOf(internship.position)>>),
     location |-> TextOf(OrElse(internship.location, "")),
     alarm |-> 0]

DetailInterviewEvent(internship) ==
    [title |-> Template(<<<<"Interview: ">>, TextOf(internship.company),
                          <<" - ">>, TextOf(internship.position)>>),
     start |-> NewDate(internship.interviewDate),
     end |-> PlusOneHour(NewDate(internship.interviewDate)),
     description |-> Template(<<<<"Interview for ">>, TextOf(internship.position)>>),
     location |-> TextOf(OrElse(internship.location, "Check email for details")),
     alarm |-> 60]

DetailEvents(internship) ==
    (IF Truthy(internship.deadline)
     THEN <<DetailDeadlineEvent(internship)>> ELSE <<>>)
        \o (IF Truthy(internship.interviewDate)
            THEN <<DetailInterviewEvent(internship)>> ELSE <<>>)

\* toISOString() of an invalid date throws a RangeError
Throws(event) == event.start.nan \/ event.end.nan

\* the array icsEvent before it is joined; reading is the clock at the call
icsEvent(event, reading) ==
    <<<<"BEGIN:VEVENT">>,
      <<"UID:" \o ToString(DateNow(reading)) \o "@interntracker">>,
      <<"DTSTAMP:" \o formatDate(ClockDate(reading))>>,
      <<"DTSTART:" \o formatDate(event.start)>>,
      <<"DTEND:" \o formatDate(event.end)>>,
      Cat(<<"SUMMARY:">>, event.title),
      Cat(<<"DESCRIPTION:">>, event.description),
      Cat(<<"LOCATION:">>, event.location)>>
    \o (IF event.alarm # 0
        THEN <<<<"BEGIN:VALARM">>,
               <<"TRIGGER:-PT" \o ToString(event.alarm) \o "M">>,
               <<"ACTION:DISPLAY">>,
               Cat(<<"DESCRIPTION:Reminder: ">>, event.title),
               <<"END:VALARM">>>>
        ELSE <<>>)
    \o <<<<"END:VEVENT">>>>

createICSEvent(event, reading) == JoinCRLF(icsEvent(event, reading))

\* the encoding of a sequence of events, the i-th at the reading clock[i];
\* nothing is returned if an encoding throws
EncodeEvents(events, clock) ==
    IF \E i \in 1..Len(events) : Throws(events[i])
    THEN [threw |-> TRUE, events |-> <<>>]
    ELSE [threw |-> FALSE,
          events |-> [i \in 1..Len(events) |-> createICSEvent(events[i], clock[i])]]

generateCalendarEvents(recs, clock) == EncodeEvents(CalendarEvents(recs), clock)

\* what a handler makes the browser do: the messages it shows with alert()
\* and the files it offers for download
Nothing == [notice |-> <<>>, file |-> <<>>]

NoEventsNotice ==
    "No events to export. Add deadlines or interview dates to your applications."

\* the file handed to the browser: icsContent in a Blob behind a link
CalendarFile(events) ==
    [download |-> "internship-events.ics",
     type |-> "text/calendar;charset=utf-8",
     icsContent |->
         JoinCRLF(<<<<"BEGIN:VCALENDAR">>, <<"VERSION:2.0">>,
                    <<"PRODID:-//InternTracker//EN">>, <<"CALSCALE:GREGORIAN">>>>
                  \o events \o <<<<"END:VCALENDAR">>>>)]

\* variant: an empty sequence is rendered like any other
downloadICSAlways(events) == [notice |-> <<>>, file |-> <<CalendarFile(events)>>]

downloadICS(events) ==
    IF Len(events) = 0
    THEN [notice |-> <<NoEventsNotice>>, file |-> <<>>]
    ELSE [notice |-> <<>>, file |-> <<CalendarFile(events)>>]

\* the milliseconds on the clock at each of n encodings in one handler: the
\* first at the start of the handler, each next one 0..MaxElapsed
\* milliseconds later
RECURSIVE Elapsed(_)
Elapsed(n) ==
    IF n = 0 THEN {<<>>}
    ELSE IF n = 1 THEN {<<0>>}
    ELSE {Append(ms, ms[n - 1] + d) : ms \in Elapsed(n - 1), d \in 0..MaxElapsed}

\* the clock readings of a handler that starts at the tick t
ReadingsAt(t, ms) == [i \in 1..Len(ms) |-> Reading(t, ms[i])]

ExportRecord(from, recs, events, enc, out) ==
    [from |-> from, records |-> recs, events |-> events, threw |-> enc.threw,
     blocks |-> enc.events, notice |-> out.notice, file |-> out.file]

\* variant: the handler reverses the collection in place before encoding
ExportAllInPlace ==
    /\ Background
    /\ internships' = [i \in 1..Len(internships) |->
                          internships[Len(internships) + 1 - i]]
    /\ \E ms \in Elapsed(Len(CalendarEvents(internships'))) :
          LET calendarEvents ==
                  generateCalendarEvents(internships', ReadingsAt(now, ms))
          IN  lastExport' =
                 ExportRecord("nav", internships', CalendarEvents(internships'),
                              calendarEvents,
                              IF calendarEvents.threw THEN Nothing
                              ELSE downloadICS(calendarEvents.events))
    /\ UNCHANGED <<alerts, unreadAlerts, loading, showAlerts,
                   selectedInternship, storage, reader, now, nextId, dirty>>

\* "Export to Calendar" in the navigation bar
ExportAll ==
    /\ Background
    /\ \E ms \in Elapsed(Len(CalendarEvents(internships))) :
          LET calendarEvents ==
                  generateCalendarEvents(internships, ReadingsAt(now, ms))
          IN  lastExport' =
                 ExportRecord("nav", internships, CalendarEvents(internships),
                              calendarEvents,
                              IF calendarEvents.threw THEN Nothing
                              ELSE downloadICS(calendarEvents.events))
    /\ UNCHANGED <<internships, alerts, unreadAlerts, loading, showAlerts,
                   selectedInternship, storage, reader, now, nextId, dirty>>

\* the dates section of the detail view, which holds "Add to Calendar"
ShowsDates(internship) ==
    \/ Truthy(internship.applicationDate)
    \/ Truthy(internship.deadline)
    \/ Truthy(internship.interviewDate)

\* "Add to Calendar" in the detail view
AddToCalendar ==
    /\ Idle
    /\ selectedInternship # NULL
    /\ ShowsDates(selectedInternship)
    /\ \E ms \in Elapsed(Len(DetailEvents(selectedInternship))) :
          LET events == EncodeEvents(DetailEvents(selectedInternship),
                                     ReadingsAt(now, ms))
          IN  lastExport' =
                 ExportRecord("detail", <<selectedInternship>>,
                              DetailEvents(selectedInternship), events,
                              IF events.threw THEN Nothing
                              ELSE IF Len(events.events) > 0
                                   THEN downloadICS(events.events)
                                   ELSE Nothing)
    /\ UNCHANGED <<internships, alerts, unreadAlerts, loading, showAlerts,
                   selectedInternship, storage, reader, now, nextId, dirty>>

----------------------------------------------------------------------------
(* Calendar export of records of many shapes: the application as it is     *)
(* right after records were entered or imported.                           *)

CalForm(company, location, status, applicationDate, deadline, interviewDate) ==
    [Form(company, status, deadline, interviewDate)
        EXCEPT !.location = location, !.applicationDate = applicationDate]

\* "+010000-01-01" in an imported file: the first day of the year 10000
FarDate == DateStr(2913013 * DAY)

CalDeadlines == {EmptyStr, BadStr, DateStr(7 * DAY), FarDate}

CalInterviewDates == {EmptyStr, BadStr, DateStr(24 * HOUR + 1)}

CalForms ==
    {CalForm(c, l, st, EmptyStr, d, iv) :
        c \in {"Acme", BrokenLines}, l \in {"", "Austin, TX; Bldg 2\\3"},
        st \in {"applied", "interview"},
        d \in CalDeadlines, iv \in CalInterviewDates}
    \cup {CalForm("Acme", "", "applied", DateStr(0), d, EmptyStr) : d \in CalDeadlines}

CalPairForms ==
    {CalForm("Acme", "", "interview", EmptyStr, DateStr(7 * DAY), DateStr(24 * HOUR + 1)),
     CalForm("Globex", "", "applied", EmptyStr, DateStr(7 * DAY), EmptyStr),
     CalForm("Globex", "", "applied", DateStr(0), EmptyStr, EmptyStr)}

CalInit ==
    /\ internships \in
          {<<>>} \cup
          {<<MkInternship(1, f)>> : f \in CalForms} \cup
          {<<MkInternship(1, f), MkInternship(2, g)>> : f, g \in CalPairForms}
    /\ alerts = <<>>
    /\ unreadAlerts = 0
    /\ loading = FALSE
    /\ showAlerts = FALSE
    /\ selectedInternship = NULL
    /\ storage = [internships |-> <<>>, alerts |-> <<>>]
    /\ reader = NULL
    /\ now = 0
    /\ nextId = 3
    /\ dirty = TRUE
    /\ lastExport = NULL

CalNext ==
    \/ FlushEffects
    \/ ToggleAlerts
    \/ MarkAllRead
    \/ \E n \in DOMAIN alerts : ClickAlert(n)
    \/ \E n \in DOMAIN internships : SelectCard(n)
    \/ CloseDetail
    \/ ExportAll
    \/ AddToCalendar

CalSpec == CalInit /\ [][CalNext]_vars

----------------------------------------------------------------------------
(* Properties of the calendar export *)

\* C12: the alert-generation effect, a click on an alert, "Mark all as
\* read" and the two calendar export buttons leave the collection of
\* application records as it is, every record and every field: a step that
\* changes the collection is none of them.
C12_RecordsOnlyRead ==
    [][internships' # internships
        => ~(FlushEffects \/ MarkAllRead \/ (\E n \in DOMAIN alerts : ClickAlert(n))
               \/ ExportAll \/ AddToCalendar)]_vars

\* alerts were generated and one was marked read, and a record selected
\* afterwards was exported from the detail view, in a collection of two
C12_Witness ==
    /\ Len(internships) = 2
    /\ \E i \in 1..Len(alerts) : alerts[i].read
    /\ \E i \in 1..Len(alerts) : ~alerts[i].read
    /\ lastExport # NULL
    /\ lastExport.from = "detail"
    /\ lastExport.file # <<>>

\* C13: when downloadICS is called with no events (the navigation bar
\* button, nothing thrown, nothing encoded) no file is offered for
\* download and the "No events to export" message is shown.
C13_NoEventsNoDocument ==
    (lastExport # NULL /\ lastExport.from = "nav" /\ ~lastExport.threw
        /\ lastExport.blocks = <<>>)
    => /\ lastExport.file = <<>>
       /\ lastExport.notice = <<NoEventsNotice>>

\* the navigation bar button was clicked with records that have no date
C13_Witness ==
    /\ lastExport # NULL
    /\ lastExport.from = "nav"
    /\ lastExport.records # <<>>
    /\ ~lastExport.threw
    /\ lastExport.blocks = <<>>

NoDates(recs) ==
    \A i \in 1..Len(recs) : ~Truthy(recs[i].deadline) /\ ~Truthy(recs[i].interviewDate)

\* C14: an export of records that have no deadline and no interviewDate,
\* from the navigation bar or from the detail view, shows the "No events to
\* export" message.
C14_EmptyExportReported ==
    (lastExport # NULL /\ NoDates(lastExport.records))
    => lastExport.notice = <<NoEventsNotice>>

Count(S) == Cardinality(S)

\* the events of a record as the claims describe them: the deadline event
\* if the deadline is set, then the interview event if the interviewDate is
ClaimedDeadline(r) ==
    [kind |-> "deadline",
     title |-> Template(<<<<"Application Deadline: ">>, TextOf(r.company),
                          <<" - ">>, TextOf(r.position)>>),
     start |-> NewDate(r.deadline),
     end |-> NewDate(r.deadline),
     location |-> TextOf(r.location)]

ClaimedInterview(r) ==
    [kind |-> "interview",
     title |-> Template(<<<<"Interview: ">>, TextOf(r.company),
                          <<" - ">>, TextOf(r.position)>>),
     start |-> NewDate(r.interviewDate),
     end |-> PlusOneHour(NewDate(r.interviewDate)),
     location |-> TextOf(IF r.location = "" THEN "Check email for details"
                         ELSE r.location)]

RECURSIVE ClaimedEvents(_)
ClaimedEvents(recs) ==
    IF recs = <<>> THEN <<>>
    ELSE (IF Head(recs).deadline # EmptyStr THEN <<ClaimedDeadline(Head(recs))>> ELSE <<>>)
         \o (IF Head(recs).interviewDate # EmptyStr
             THEN <<ClaimedInterview(Head(recs))>> ELSE <<>>)
         \o ClaimedEvents(Tail(recs))

\* a deadline event is a point in time, an interview event lasts
KindOf(event) == IF event.start = event.end THEN "deadline" ELSE "interview"

\* C15: the navigation bar export encodes, record by record in collection
\* order, a deadline event iff the deadline is set and then an interview
\* event iff the interviewDate is set, whatever the status; the number of
\* encoded events is the number of set deadlines plus the number of set
\* interviewDates.
C15_EventsPerRecord ==
    (lastExport # NULL /\ lastExport.from = "nav")
    => LET recs == lastExport.records
           claimed == ClaimedEvents(recs)
       IN  /\ Len(lastExport.blocks) =
                 Count({i \in 1..Len(recs) : recs[i].deadline # EmptyStr})
                 + Count({i \in 1..Len(recs) : recs[i].interviewDate # EmptyStr})
           /\ Len(lastExport.blocks) = Len(claimed)
           /\ \A i \in 1..Len(lastExport.blocks) :
                 KindOf(lastExport.events[i]) = claimed[i].kind

\* C16: every event that is encoded, by the navigation bar export and by
\* "Add to Calendar" alike, has the title, start, end and location that the
\* claim gives for a deadline event or an interview event of its record.
C16_EventFields ==
    (lastExport # NULL /\ ~lastExport.threw)
    => LET claimed == ClaimedEvents(lastExport.records)
       IN  /\ Len(lastExport.events) = Len(claimed)
           /\ \A i \in 1..Len(claimed) :
                 /\ lastExport.events[i].title = claimed[i].title
                 /\ lastExport.events[i].start = claimed[i].start
                 /\ lastExport.events[i].end = claimed[i].end
                 /\ lastExport.events[i].location = claimed[i].location

\* the positions of the line s in a text
LinesAt(text, s) == {i \in 1..Len(text) : text[i] = s}

\* C17: an encoded event has a VALARM block iff it has an alarm lead time:
\* the block of an interview event has exactly one BEGIN:VALARM line and
\* one END:VALARM line, with TRIGGER:-PT60M and ACTION:DISPLAY after the
\* first and END:VEVENT right after the second, and the block of a deadline
\* event has no BEGIN:VALARM and no END:VALARM line.
C17_AlarmBlock ==
    (lastExport # NULL)
    => \A i \in 1..Len(lastExport.blocks) :
          LET block == lastExport.blocks[i]
              begins == LinesAt(block, "BEGIN:VALARM")
              ends == LinesAt(block, "END:VALARM")
          IN  IF KindOf(lastExport.events[i]) = "interview"
              THEN /\ Count(begins) = 1
                   /\ Count(ends) = 1
                   /\ \A b \in begins, e \in ends :
                         /\ b > 8
                         /\ block[b + 1] = "TRIGGER:-PT60M"
                         /\ block[b + 2] = "ACTION:DISPLAY"
                         /\ b + 3 < e
                         /\ e + 1 = Len(block)
                         /\ block[e + 1] = "END:VEVENT"
              ELSE begins = {} /\ ends = {}

\* C18: a downloaded document is the four header lines, the encoded events
\* in their order and END:VCALENDAR, and it has as many BEGIN:VEVENT lines
\* and as many END:VEVENT lines as events were encoded.
C18_DocumentStructure ==
    (lastExport # NULL /\ lastExport.file # <<>>)
    => LET doc == lastExport.file[1].icsContent
       IN  /\ doc = <<"BEGIN:VCALENDAR", "VERSION:2.0",
                      "PRODID:-//InternTracker//EN", "CALSCALE:GREGORIAN">>
                    \o JoinCRLF(lastExport.blocks) \o <<"END:VCALENDAR">>
           /\ Count(LinesAt(doc, "BEGIN:VEVENT")) = Len(lastExport.blocks)
           /\ Count(LinesAt(doc, "END:VEVENT")) = Len(lastExport.blocks)

\* C19: whatever text the record holds, an encoded event is BEGIN:VEVENT,
\* the seven property lines UID, DTSTAMP, DTSTART, DTEND, SUMMARY,
\* DESCRIPTION, LOCATION, the five lines of the alarm block if the event has
\* an alarm, and END:VEVENT: 9 or 14 lines, none added or split.
C19_OneLinePerProperty ==
    (lastExport # NULL)
    => \A i \in 1..Len(lastExport.blocks) :
          LET block == lastExport.blocks[i]
          IN  /\ Len(block) = IF lastExport.events[i].alarm # 0 THEN 14 ELSE 9
              /\ block[1] = "BEGIN:VEVENT"
              /\ LinesAt(block, "END:VEVENT") = {Len(block)}

\* C20: in one downloaded document no two events have the same UID line.
C20_UniqueUIDs ==
    (lastExport # NULL /\ lastExport.file # <<>>)
    => \A i, j \in 1..Len(lastExport.blocks) :
          i # j => lastExport.blocks[i][2] # lastExport.blocks[j][2]

\* the instant of a date in the compact form: YYYYMMDD, T, HHMMSS, Z
Compact(date) ==
    LET f == UTCFields(date)
    IN  Pad(f.year, 4) \o Pad(f.month, 2) \o Pad(f.day, 2) \o "T"
        \o Pad(f.hours, 2) \o Pad(f.minutes, 2) \o Pad(f.seconds, 2) \o "Z"

\* C21: in every encoded event the DTSTAMP value is the instant of the
\* encoding, the DTSTART value the start and the DTEND value the end of the
\* event, each written as YYYYMMDD, T, HHMMSS, Z: digits only, seconds
\* precision, no separators, no fraction.
C21_CompactTimestamps ==
    (lastExport # NULL)
    => \A i \in 1..Len(lastExport.blocks) :
          LET block == lastExport.blocks[i]
              event == lastExport.events[i]
          IN  /\ \E ms \in 0..(Len(lastExport.blocks) * MaxElapsed) :
                    block[3] = "DTSTAMP:" \o Compact(ClockDate(Reading(now, ms)))
              /\ block[4] = "DTSTART:" \o Compact(event.start)
              /\ block[5] = "DTEND:" \o Compact(event.end)

\* C22: an event that was encoded, encoded again at any tick of the clock,
\* gives the same lines as before except for the UID line, the second.
C22_SameUpToUID ==
    (lastExport # NULL)
    => \A i \in 1..Len(lastExport.blocks), t \in 0..MaxNow + 1 :
          LET block == lastExport.blocks[i]
              again == createICSEvent(lastExport.events[i], Reading(t, 0))
          IN  /\ Len(again) = Len(block)
              /\ \A k \in 1..Len(block) : k # 2 => again[k] = block[k]

IdsInOrder(recs) == [i \in 1..Len(recs) |-> recs[i].id]

\* C23: after every step no two records of the collection have the same
\* id, and an edit leaves the id of every record, the edited one included,
\* as it was.
C23_UniqueRecordIds ==
    [][/\ \A i, j \in 1..Len(internships') :
              i # j => internships'[i].id # internships'[j].id
       /\ (\E id \in 1..MaxId, form \in FormData : HandleSubmitEdit(id, form))
              => IdsInOrder(internships') = IdsInOrder(internships)]_vars

\* the effect has appended and is about to run again, with no candidate
\* left to append
C24_Witness ==
    /\ SecondRun
    /\ UniqueNewAlerts(NewAlerts(internships, now), alerts) = <<>>

\* C24: a generation run sets the collection, and so schedules itself
\* again, only when it appends, and after any run no candidate is missing
\* from the collection: the run that follows appends nothing and the effect
\* rests after at most two runs.
C24_EffectQuiesces ==
    [][FlushEffects =>
        /\ dirty' <=> (alerts' # alerts)
        /\ (alerts' # alerts) <=> (Appended # <<>>)
        /\ UniqueNewAlerts(NewAlerts(internships', now'), alerts') = <<>>]_vars

\* a click has marked one of two alerts read, the detail view of its record
\* is open and the effect has run since
C25_Witness ==
    /\ Idle
    /\ unreadAlerts = 1
    /\ selectedInternship # NULL
    /\ ~showAlerts
    /\ \E i, j \in 1..Len(alerts) :
          /\ alerts[i].read
          /\ alerts[i].internshipId = selectedInternship.id
          /\ ~alerts[j].read

\* C25: in every state reached with loading over and no run of the effect
\* pending, the unread counter is the number of alerts with read = FALSE;
\* a click on an alert leaves the counter as it is and schedules the effect,
\* whose last run sets it to that number.
C25_CounterAtQuiescence ==
    [][/\ (~loading' /\ ~dirty') => unreadAlerts' = CountUnread(alerts')
       /\ \A n \in DOMAIN alerts :
             ClickAlert(n) => (unreadAlerts' = unreadAlerts /\ dirty')]_vars

\* the alert collection of the user: the one in memory or, while the page
\* loads, the one in localStorage that the load callback is going to set
PersistedAlerts == IF loading THEN storage.alerts ELSE alerts

\* the page is being reloaded and the stored collection holds a read alert
C26_Witness ==
    /\ loading
    /\ \E i \in 1..Len(storage.alerts) : storage.alerts[i].read

\* C26: a generation run appends unread alerts only, and an alert that is
\* read stays in its place and read through every step: runs of the effect,
\* clicks, "Mark all as read", edits and deletions of records, imports, and
\* a reload followed by the load from localStorage.
C26_ReadIsMonotonic ==
    [][/\ FlushEffects => \A i \in 1..Len(Appended) : ~Appended[i].read
       /\ \A i \in 1..Len(PersistedAlerts) :
             PersistedAlerts[i].read
             => /\ i <= Len(PersistedAlerts')
                /\ PersistedAlerts'[i].id = PersistedAlerts[i].id
                /\ PersistedAlerts'[i].read]_vars

\* the candidates of one record whose type is in a set of types
OfTypes(cands, types) == SelectSeq(cands, LAMBDA alert : alert.type \in types)

\* a run has appended the two candidates of a record: a deadline alert and
\* an interview reminder or follow-up
C27_Witness ==
    \E k \in 1..Len(internships) :
        LET cands == RecordAlerts(internships[k], now)
        IN  /\ Len(cands) = 2
            /\ Len(OfTypes(cands, {"deadline"})) = 1
            /\ \A i \in 1..2 : cands[i] \in {alerts[j] : j \in 1..Len(alerts)}

\* C27: at every instant a run of the effect has at most two candidates for
\* one record: at most one deadline alert and at most one of interview-24,
\* interview-2 and followup, and none of another type.
C27_TwoCandidatesPerRecord ==
    \A k \in 1..Len(internships) :
        LET cands == RecordAlerts(internships[k], now)
        IN  /\ Len(cands) <= 2
            /\ Len(OfTypes(cands, {"deadline"})) <= 1
            /\ Len(OfTypes(cands, {"interview", "followup"})) <= 1
            /\ OfTypes(cands, {"deadline", "interview", "followup"}) = cands
            /\ \A i \in 1..Len(cands) : cands[i].internshipId = internships[k].id

\* the page was reloaded, the effects of the mount have run, and the records
\* and alerts saved before are in localStorage, not yet read
C28_Witness ==
    /\ loading
    /\ ~dirty
    /\ internships = <<>>
    /\ alerts = <<>>
    /\ storage.internships # <<>>
    /\ storage.alerts # <<>>

\* C28: while the page loads no step writes localStorage and the alert
\* collection changes only by the load, which sets the stored records and
\* alerts; what is written later is the state in memory; and no run of the
\* effect, the first after a reload included, appends an alert whose id is
\* the id of a stored alert.
C28_NothingBeforeLoad ==
    [][/\ loading => /\ storage' = storage
                     /\ alerts' # alerts => (~loading' /\ alerts' = storage.alerts)
                     /\ internships' # internships
                            => (~loading' /\ internships' = storage.internships)
       /\ storage' # storage => storage' = SaveEffect(internships, alerts)
       /\ FlushEffects =>
             \A i \in 1..Len(Appended) :
                 Appended[i].id \notin AlertIdsOf(storage.alerts)]_vars

----------------------------------------------------------------------------
(* Import: the handlers of the record list can run while a file is read *)

ImportNext ==
    \/ Load
    \/ FlushEffects
    \/ \E form \in FormData : HandleSubmitNew(form)
    \/ \E id \in 1..MaxId, form \in FormData : HandleSubmitEdit(id, form)
    \/ \E id \in 1..MaxId : HandleDelete(id)
    \/ \E file \in ImportFiles : ImportData(file)
    \/ ReaderOnload

ImportSpec == Init /\ [][ImportNext]_vars

\* C29: when the read of a well-formed file completes, the record
\* collection becomes the collection of that moment followed by the records
\* of the file.
C29_ImportKeepsChanges ==
    [][(ReaderOnload /\ reader.file.ok)
           => internships' = internships \o reader.file.recs]_vars

\* a click has just marked one alert read and left another unread, and has
\* closed the list
C30_Witness ==
    /\ dirty
    /\ ~loading
    /\ ~showAlerts
    /\ Len(storage.alerts) = Len(alerts)
    /\ \E i, j \in 1..Len(alerts) :
          /\ alerts[i].read
          /\ ~storage.alerts[i].read
          /\ ~alerts[j].read

\* a click has just marked read an alert whose record is gone
C30_WitnessGone ==
    /\ dirty
    /\ ~loading
    /\ ~showAlerts
    /\ selectedInternship = NULL
    /\ Len(storage.alerts) = Len(alerts)
    /\ \E i \in 1..Len(alerts) :
          /\ alerts[i].read
          /\ ~storage.alerts[i].read
          /\ alerts[i].internshipId \notin RecordIds(internships)

\* C30: a click on the alert at position n makes read = TRUE in the alerts
\* with the id of that alert and changes nothing else in the collection; the
\* selection becomes the first record whose id is the internshipId of the
\* alert, or stays as it is when there is none; the list is closed; records,
\* counter and storage are left alone.
C30_ClickFrame ==
    [][\A n \in DOMAIN alerts :
          ClickAlert(n) =>
             /\ Len(alerts') = Len(alerts)
             /\ \A i \in 1..Len(alerts) :
                   alerts'[i] = IF alerts[i].id = alerts[n].id
                                THEN [alerts[i] EXCEPT !.read = TRUE]
                                ELSE alerts[i]
             /\ IF alerts[n].internshipId \in RecordIds(internships)
                THEN /\ selectedInternship' \in {internships[k] : k \in 1..Len(internships)}
                     /\ selectedInternship'.id = alerts[n].internshipId
                ELSE selectedInternship' = selectedInternship
             /\ showAlerts' = FALSE
             /\ UNCHANGED <<internships, unreadAlerts, storage, loading>>]_vars

====
